---- MODULE Spec2Model ----
(***************************************************************************)
(* Model of the resumable label-size aggregation pipeline of               *)
(* calculator.py: the page-cursor loop (Calculator.gen_stat), the chunked  *)
(* fetch scheduler (Calculator.gen_stat_for_messages, the same algorithm   *)
(* as BatchedMessageFetcher.fetch_messages), the snapshot file             *)
(* (Calculator.save / Calculator.load_or_create) and main/cli.             *)
(*                                                                         *)
(* The remote mailbox is an environment: a fixed list of items 1..n,       *)
(* served in pages of maxResults items.  A page token is the index of the  *)
(* page it asks for (token c asks for items c*p+1 .. c*p+p); Python's None *)
(* is modelled by the value None == 0, which is no token.                  *)
(***************************************************************************)
EXTENDS Integers, Sequences, FiniteSets, TLC

\* ------------------------------------------------------------------ bounds
MaxItems == 4        \* items in the mailbox: 0..MaxItems
MaxPerPage == 3      \* --messages-per-page: 1..MaxPerPage
MaxPoolSize == 3     \* pool_size of the fetch scheduler: 1..MaxPoolSize
MaxProcessed == 6    \* cap on state.messages_processed (Python ints do not overflow)
MaxBatch == 7        \* items of the page the scheduler is checked on alone: 1..MaxBatch
MaxSize == 2         \* size of a label in a printed dict: 0..MaxSize
MaxCount == 2        \* count of a label in a printed dict: 0..MaxCount
MaxFold == 3         \* messages of the chunk the fold is checked on alone: 0..MaxFold

None == 0

Min(a, b) == IF a < b THEN a ELSE b

\* ------------------------------------------------------- remote mailbox API
\* labels().list(): the label catalogue of the mailbox.
LabelIds == {"L1", "L2"}

LabelType(l) == IF l = "L1" THEN "user" ELSE "system"

\* messages().get(id, format="minimal"): labelIds and sizeEstimate of an item.
ItemLabelIds(i) ==
    CASE i % 3 = 1 -> <<"L1">>
      [] i % 3 = 2 -> <<"L1", "L2">>
      [] OTHER     -> <<"L2">>

ItemSize(i) == IF i % 2 = 1 THEN 2 ELSE 1

\* A label id that labels().list() does not return.
UnknownLabel == "L0"

\* The item rem.orphan (0: no item) carries UnknownLabel after its other labels.
GetMessage(rem, i) ==
    [id |-> i, sizeEstimate |-> ItemSize(i),
     labelIds |-> IF i = rem.orphan THEN Append(ItemLabelIds(i), UnknownLabel)
                  ELSE ItemLabelIds(i)]

\* The kinds of listing service the driver is run against:
\*   "plain"     the final non-empty page carries no nextPageToken;
\*   "emptytail" the final non-empty page carries a token, and the page it
\*               names is empty and carries none (end of list as an empty page);
\*   "stall"     as plain, but the response to token 1 repeats token 1.
RemoteKinds == {"plain", "emptytail", "stall"}

StallToken == 1

\* The items of the page a request with page token c and maxResults p gets.
PageMessages(n, p, c) ==
    [k \in 1..(Min(c * p + p, n) - Min(c * p, n)) |-> [id |-> c * p + k]]

NextPageToken(rem, p, c) ==
    CASE rem.kind = "stall" /\ c = StallToken -> c
      [] rem.kind = "emptytail" -> IF c * p < rem.n THEN c + 1 ELSE None
      [] OTHER -> IF (c + 1) * p < rem.n THEN c + 1 ELSE None

\* messages().list(maxResults=p, pageToken=c).execute()
ListMessages(rem, p, c) ==
    [messages |-> PageMessages(rem.n, p, c), nextPageToken |-> NextPageToken(rem, p, c)]

VARIABLES
    remote,         \* the mailbox: [n, kind, orphan]
    pool_size,      \* BatchedMessageFetcher._pool_size / MESSAGE_FETCHING_CONCURRENCY
    disk,           \* the snapshot file: [tag: "none" | "torn" | "ok", st]
    pc,             \* position of the process
    state,          \* Calculator.state
    page,           \* gen_stat: messages and next_page_token of the response
    remaining,      \* gen_stat_for_messages: remaining
    current_batch,  \* gen_stat_for_messages: current_batch
    inflight,       \* pool slots whose gen_message has not returned
    responses,      \* results gathered so far, by slot
    ret,            \* where save() returns to
    error,          \* the exception that ended the process, "none" if none
    printed,        \* what print_stat has logged last in this process
    busy,           \* per fetcher of the pool: its gen_message calls in flight
    credentials,    \* CredentialsProvider._credentials: None or the credentials
    cache,          \* ServiceProvider._cache: per fetcher its handle, None if none
    svc,            \* per fetcher: MessageFetcher._messages_svc
    phase,          \* per slot of the chunk: where its gen_message call stands
    hist            \* history of the current run (not program state)

vars == <<remote, pool_size, disk, pc, state, page, remaining, current_batch,
          inflight, responses, ret, error, printed, busy, credentials, cache, svc,
          phase, hist>>


\* ------------------------------------------------------------ program state
\* State(done, labels, message_per_page, next_page_token=None, messages_processed=0)
NewState(p) ==
    [done |-> FALSE, labels |-> <<>>, message_per_page |-> p,
     next_page_token |-> None, messages_processed |-> 0]

\* gen_labels: {label["id"]: LabelData(id, name, type)} with size = count = 0
NewLabels == [l \in LabelIds |-> [type |-> LabelType(l), size |-> 0, count |-> 0]]

\* What is left of a process's memory when no process runs.
NoState == NewState(0)
NoPage == [messages |-> <<>>, nextPageToken |-> None]
NoFile == [tag |-> "none", st |-> NoState]
TornFile == [tag |-> "torn", st |-> NoState]

\* fresh: the run started without a snapshot; loaded, token: messages_processed
\* and next_page_token of the snapshot it started from; cursors: the page
\* tokens of the page requests, in order;
\* calls: remote calls (label listing, page requests, item fetches); fetched:
\* the items fetched; chunks: the sizes of the chunks of the current page;
\* exit: which check left the loop.
\* had_labels: the state the run started from had labels; label_calls: calls
\* of labels().list(); acquired: calls of _create_or_get_credentials;
\* builders: the fetchers that built a service handle, in order (the k-th
\* handle built is handle k); used: the <<fetcher, handle>> of every get;
\* cli: --messages-per-page of the run; stored: message_per_page of the
\* snapshot it started from; sizes: the maxResults of its page requests.
NewHist(fresh, loaded, token) ==
    [fresh |-> fresh, loaded |-> loaded, token |-> token, cursors |-> <<>>, calls |-> 0,
     fetched |-> {}, chunks |-> <<>>, exit |-> "none",
     had_labels |-> FALSE, label_calls |-> 0,
     acquired |-> 0, builders |-> <<>>, used |-> {},
     cli |-> 0, stored |-> 0, sizes |-> {}]

\* ------------------------------------------------------------------- fold
\* Mutant of FoldRaises: an unknown label id is passed over.
FoldRaises_Never(labels, resps) == FALSE

\* self.state.labels[label_id] raises KeyError for a label_id not in the dict
FoldRaises(labels, resps) ==
    \E k \in DOMAIN resps : \E j \in DOMAIN resps[k].labelIds :
        resps[k].labelIds[j] \notin DOMAIN labels

\* Mutant of FoldLabel: the size of the message replaces the size of the label.
FoldLabel_SizeReplaced(labels, label_id, size) ==
    [labels EXCEPT ![label_id].count = @ + 1, ![label_id].size = size]

\* self.state.labels[label_id].count += 1; self.state.labels[label_id].size += size
FoldLabel(labels, label_id, size) ==
    [labels EXCEPT ![label_id].count = @ + 1, ![label_id].size = @ + size]

\* for label_id in message_response.get("labelIds", []): ... up to the end of
\* the list or to the first label_id that is not in the dict
RECURSIVE FoldLabelIds(_, _, _)
FoldLabelIds(labels, ids, size) ==
    IF ids = <<>> \/ Head(ids) \notin DOMAIN labels THEN labels
    ELSE FoldLabelIds(FoldLabel(labels, Head(ids), size), Tail(ids), size)

\* for message_response in message_responses: ... up to the end of the list
\* or to the first message whose fold raises
RECURSIVE FoldResponses(_, _)
FoldResponses(labels, resps) ==
    IF resps = <<>> THEN labels
    ELSE LET folded == FoldLabelIds(labels, Head(resps).labelIds,
                                    Head(resps).sizeEstimate)
         IN  IF FoldRaises(labels, <<Head(resps)>>) THEN folded
             ELSE FoldResponses(folded, Tail(resps))

\* -------------------------------------------------------------- print_stat
\* The order of the label list of the service, which the dict keeps.
LabelOrder == <<"L1", "L2", "L3">>

\* Mutant of IsRelevant: the type of the label is not looked at.
IsRelevant_AnyType(label) == label.count > 0

\* LabelData.is_relevant
IsRelevant(label) == label.count > 0 /\ label.type # "system"

\* sorted(..., key=size) is stable: id goes behind the ids of no greater size
RECURSIVE SortedInsert(_, _, _)
SortedInsert(labels, sorted, id) ==
    IF sorted = <<>> THEN <<id>>
    ELSE IF labels[Head(sorted)].size <= labels[id].size
         THEN <<Head(sorted)>> \o SortedInsert(labels, Tail(sorted), id)
         ELSE <<id>> \o sorted

RECURSIVE SortBySize(_, _)
SortBySize(labels, ids) ==
    IF ids = <<>> THEN <<>>
    ELSE SortedInsert(labels, SortBySize(labels, SubSeq(ids, 1, Len(ids) - 1)),
                      ids[Len(ids)])

\* [label for label in self.labels.values() if label.is_relevant()]
RelevantIds(labels) ==
    LET Keep(l) == l \in DOMAIN labels /\ IsRelevant(labels[l])
    IN  SelectSeq(LabelOrder, Keep)

\* State.print_stat: the labels logged, in the order of their lines
PrintLines(labels) == SortBySize(labels, RelevantIds(labels))

Printed(st) == [stat |-> TRUE, lines |-> PrintLines(st.labels)]
NotPrinted == [stat |-> FALSE, lines |-> <<>>]

\* ------------------------------------------------------------- scheduler
\* current_batch = remaining[:pool_size]
TakeBatch(rem, size) == SubSeq(rem, 1, Min(Len(rem), size))

\* Mutant of DropBatch: the slice starts one id too late.
DropBatch_SkipsOne(rem, size) == SubSeq(rem, Min(Len(rem), size + 1) + 1, Len(rem))

\* remaining = remaining[pool_size:]
DropBatch(rem, size) == SubSeq(rem, Min(Len(rem), size) + 1, Len(rem))

\* range(min(len(current_batch), pool_size)): the pool slots a chunk uses
ChunkSlots(batch, size) == 1..Min(Len(batch), size)

\* ----------------------------------------------------------- pagination
\* if next_page_token == self.state.next_page_token: break
StallCheck(resp, st) == resp.nextPageToken = st.next_page_token

\* Mutant of EmptyCheck: a page without messages does not leave the loop.
EmptyCheck_Never(resp) == FALSE

\* if not messages: break
EmptyCheck(resp) == resp.messages = <<>>

\* Mutant of MainIsDone: main does not look at done.
MainIsDone_Ignored(st) == FALSE

\* main: if calculator.state.done: print_stat(); return
MainIsDone(st) == st.done

\* Mutant of MainHasLabels: main lists the labels whatever the state holds.
MainHasLabels_Never(st) == FALSE

\* main: if calculator.state.labels: ... else: await calculator.gen_labels()
MainHasLabels(st) == st.labels # <<>>

\* Mutant of LoadState: the page token of the snapshot is not restored.
LoadState_NoToken(file) == [file.st EXCEPT !.next_page_token = None]

\* load_or_create: state = pickle.load(f)
LoadState(file) == file.st

\* Mutant of AdvanceState: a page counts as one message.
AdvanceState_CountsOne(st, pg) ==
    [st EXCEPT !.messages_processed = @ + 1, !.next_page_token = pg.nextPageToken]

\* Mutant of MaxResults: the page size of the command line is asked for.
MaxResults_FromCli(st) == hist.cli

\* message_service.list(..., maxResults=self.state.message_per_page, ...)
MaxResults(st) == st.message_per_page

\* after the page: messages_processed += len(messages); next_page_token = ...
AdvanceState(st, pg) ==
    [st EXCEPT !.messages_processed = @ + Len(pg.messages),
               !.next_page_token = pg.nextPageToken]

\* --------------------------------------------------------------- actions
\* No fetcher of the pool has a call in flight.
Idle(size) == [f \in 1..size |-> 0]

\* Mutant of FetcherFor: every position of the chunk uses the first fetcher.
FetcherFor_First(i) == 1

\* self.message_fetchers[i].gen_message(current_batch[i]["id"])
FetcherFor(i) == i

\* The credentials _create_or_get_credentials returns.
Creds == 1

\* Mutant of NeedsAcquire: the credentials kept are not looked at.
NeedsAcquire_Always(cred) == TRUE

\* create_or_get_credentials: if self._credentials is None
NeedsAcquire(cred) == cred = None

\* _create_service without cache_key (label service, page-listing service):
\* _create_base_service asks for the credentials, nothing else runs meanwhile
AcquiredBy(cred) == IF NeedsAcquire(cred) THEN 1 ELSE 0

\* Mutant of CacheLookup: the cache never has the handle.
CacheLookup_Miss(c, f) == None

\* _get_from_cache(service_type, cache_key): self._cache.get((type, key))
CacheLookup(c, f) == c[f]

\* No fetcher has a handle; no slot has a call.
NoHandles(size) == [f \in 1..size |-> None]
NoCalls(size) == [i \in 1..size |-> "idle"]

Init ==
    /\ remote \in {r \in [n : 0..MaxItems, kind : RemoteKinds, orphan : 0..MaxItems] :
                     r.orphan <= r.n}
    /\ pool_size \in 1..MaxPoolSize
    /\ disk = NoFile
    /\ pc = "main"
    /\ \E p \in 1..MaxPerPage : state = NewState(p)
    /\ page = NoPage
    /\ remaining = <<>>
    /\ current_batch = <<>>
    /\ inflight = {}
    /\ responses = <<>>
    /\ ret = "none"
    /\ error = "none"
    /\ printed = NotPrinted
    /\ busy = Idle(pool_size)
    /\ credentials = None
    /\ cache = NoHandles(pool_size)
    /\ svc = NoHandles(pool_size)
    /\ phase = NoCalls(pool_size)
    /\ hist = [NewHist(TRUE, 0, None) EXCEPT !.cli = state.message_per_page]

Locals == <<page, remaining, current_batch, inflight, responses, busy, cache, svc, phase>>

\* cli: Calculator.load_or_create(...), then asyncio.run(main(calculator))
Start(p) ==
    /\ pc \in {"off", "exited"}
    /\ page' = NoPage /\ remaining' = <<>> /\ current_batch' = <<>>
    /\ inflight' = {} /\ responses' = <<>> /\ ret' = "none"
    /\ printed' = NotPrinted /\ busy' = Idle(pool_size)
    /\ credentials' = None /\ cache' = NoHandles(pool_size)
    /\ svc' = NoHandles(pool_size) /\ phase' = NoCalls(pool_size)
    /\ IF disk.tag = "none"
       THEN /\ state' = NewState(p)
            /\ pc' = "main" /\ error' = "none"
            /\ hist' = [NewHist(TRUE, 0, None) EXCEPT !.cli = p]
       ELSE IF disk.tag = "ok"
       THEN /\ state' = LoadState(disk)
            /\ pc' = "main" /\ error' = "none"
            /\ hist' = [NewHist(FALSE, LoadState(disk).messages_processed,
                                LoadState(disk).next_page_token)
                          EXCEPT !.had_labels = (disk.st.labels # <<>>),
                                 !.cli = p, !.stored = disk.st.message_per_page]
       ELSE \* pickle.load raises on an empty or truncated file
            /\ state' = NoState
            /\ pc' = "exited" /\ error' = "load"
            /\ hist' = [NewHist(FALSE, 0, None) EXCEPT !.cli = p]
    /\ UNCHANGED <<remote, pool_size, disk>>

\* main, up to the call of gen_labels or to the end of the labels branch
Main ==
    /\ pc = "main"
    /\ IF MainIsDone(state)
       THEN pc' = "exited" /\ printed' = Printed(state)
       ELSE /\ pc' = IF MainHasLabels(state) THEN "main_resume" ELSE "gen_labels"
            /\ UNCHANGED printed
    /\ UNCHANGED <<remote, pool_size, disk, state, ret, error, credentials, hist>>
    /\ UNCHANGED Locals

\* Calculator.gen_labels, up to the open() of its save()
GenLabels ==
    /\ pc = "gen_labels"
    /\ state' = [state EXCEPT !.labels = NewLabels]
    /\ credentials' = Creds
    /\ hist' = [hist EXCEPT !.calls = @ + 1, !.label_calls = @ + 1,
                            !.acquired = @ + AcquiredBy(credentials)]
    /\ pc' = "save_open" /\ ret' = "main_resume"
    /\ UNCHANGED <<remote, pool_size, disk, error, printed>>
    /\ UNCHANGED Locals

\* labels_service.list(userId="me").execute() raises: nothing up to cli
\* catches it, the process ends
GenLabelsFail ==
    /\ pc = "gen_labels"
    /\ pc' = "exited" /\ error' = "labels"
    /\ credentials' = Creds
    /\ hist' = [hist EXCEPT !.calls = @ + 1, !.label_calls = @ + 1,
                            !.acquired = @ + AcquiredBy(credentials)]
    /\ UNCHANGED <<remote, pool_size, disk, state, ret, printed>>
    /\ UNCHANGED Locals

\* main: if calculator.state.messages_processed > 0: print_stat(); then
\* gen_stat up to its loop: message_service = await create_messages_service()
MainResume ==
    /\ pc = "main_resume"
    /\ printed' = IF state.messages_processed > 0 THEN Printed(state) ELSE printed
    /\ credentials' = Creds
    /\ hist' = [hist EXCEPT !.acquired = @ + AcquiredBy(credentials)]
    /\ pc' = "gen_stat"
    /\ UNCHANGED <<remote, pool_size, disk, state, ret, error>>
    /\ UNCHANGED Locals

\* Calculator.save: open(self.snapshot, "wb") truncates the file
SaveOpen ==
    /\ pc = "save_open"
    /\ disk' = TornFile
    /\ pc' = "save_dump"
    /\ UNCHANGED <<remote, pool_size, state, ret, error, printed, credentials, hist>>
    /\ UNCHANGED Locals

\* Calculator.save: pickle.dump(self.state, f) and close
SaveDump ==
    /\ pc = "save_dump"
    /\ disk' = [tag |-> "ok", st |-> state]
    /\ pc' = ret /\ ret' = "none"
    /\ UNCHANGED <<remote, pool_size, state, error, printed, credentials, hist>>
    /\ UNCHANGED Locals

\* Calculator.save: open() raises (the file stays as it was) or pickle.dump
\* raises (the file stays truncated); nothing up to cli catches it
SaveFail ==
    /\ pc \in {"save_open", "save_dump"}
    /\ pc' = "exited" /\ error' = "save"
    /\ UNCHANGED <<remote, pool_size, disk, state, ret, printed, credentials, hist>>
    /\ UNCHANGED Locals

\* Calculator.gen_stat: one pass of the while loop up to gen_stat_for_messages,
\* or the break followed by done = True and the open() of the final save.
\* prev_request is never assigned outside the else branch, so every pass
\* takes the list(pageToken=self.state.next_page_token) branch.
RequestPage ==
    /\ pc = "gen_stat"
    /\ LET resp == ListMessages(remote, MaxResults(state), state.next_page_token)
       IN  IF StallCheck(resp, state) \/ EmptyCheck(resp)
           THEN /\ state' = [state EXCEPT !.done = TRUE]
                /\ pc' = "save_open" /\ ret' = "print"
                /\ hist' = [hist EXCEPT !.cursors = Append(@, state.next_page_token),
                               !.calls = @ + 1, !.sizes = @ \cup {MaxResults(state)},
                               !.exit = IF StallCheck(resp, state) THEN "stall" ELSE "empty"]
                /\ UNCHANGED <<page, remaining>>
           ELSE /\ state.messages_processed + Len(resp.messages) <= MaxProcessed
                /\ page' = resp
                /\ remaining' = resp.messages
                /\ pc' = "sched"
                /\ hist' = [hist EXCEPT !.cursors = Append(@, state.next_page_token),
                               !.calls = @ + 1, !.sizes = @ \cup {MaxResults(state)},
                               !.chunks = <<>>]
                /\ UNCHANGED <<state, ret>>
    /\ UNCHANGED <<remote, pool_size, disk, current_batch, inflight, responses, error,
                   printed, busy, credentials, cache, svc, phase>>

\* request.execute() of the page listing raises: nothing up to cli catches it
RequestPageFail ==
    /\ pc = "gen_stat"
    /\ pc' = "exited" /\ error' = "list"
    /\ hist' = [hist EXCEPT !.cursors = Append(@, state.next_page_token),
                            !.calls = @ + 1, !.sizes = @ \cup {MaxResults(state)}]
    /\ UNCHANGED <<remote, pool_size, disk, state, ret, printed, credentials>>
    /\ UNCHANGED Locals

\* gen_stat_for_messages: while remaining: slice the chunk and start gather
DispatchChunk ==
    /\ pc = "sched"
    /\ remaining # <<>>
    /\ current_batch' = TakeBatch(remaining, pool_size)
    /\ remaining' = DropBatch(remaining, pool_size)
    /\ inflight' = ChunkSlots(current_batch', pool_size)
    /\ responses' = <<>>
    /\ busy' = [f \in DOMAIN busy |->
                  busy[f] + Cardinality({i \in inflight' : FetcherFor(i) = f})]
    /\ phase' = [i \in DOMAIN phase |-> IF i \in inflight' THEN "svc" ELSE "idle"]
    /\ pc' = "gather"
    /\ hist' = [hist EXCEPT
                  !.chunks = Append(@, Cardinality(inflight')),
                  !.calls = @ + Cardinality(inflight'),
                  !.fetched = @ \cup {current_batch'[i].id : i \in inflight'}]
    /\ UNCHANGED <<remote, pool_size, disk, state, page, ret, error, printed,
                   credentials, cache, svc>>

\* MessageFetcher.gen_message of slot i, up to its first await:
\* create_messages_service(self) finds the handle in the cache and
\* gen_message stores it, or misses and goes on to _create_base_service,
\* where create_or_get_credentials returns the credentials kept or awaits
\* _create_or_get_credentials
FetchService(i) ==
    /\ pc = "gather"
    /\ i \in inflight
    /\ phase[i] = "svc"
    /\ LET f == FetcherFor(i)
       IN  IF CacheLookup(cache, f) # None
           THEN /\ svc' = [svc EXCEPT ![f] = CacheLookup(cache, f)]
                /\ phase' = [phase EXCEPT ![i] = "get"]
                /\ UNCHANGED hist
           ELSE IF NeedsAcquire(credentials)
           THEN /\ phase' = [phase EXCEPT ![i] = "acquire"]
                /\ hist' = [hist EXCEPT !.acquired = @ + 1]
                /\ UNCHANGED svc
           ELSE /\ phase' = [phase EXCEPT ![i] = "build"]
                /\ UNCHANGED <<svc, hist>>
    /\ UNCHANGED <<remote, pool_size, disk, pc, state, page, remaining, current_batch,
                   inflight, responses, ret, error, printed, busy, credentials, cache>>

\* _create_service of slot i after the cache miss, from one await to the
\* next: _create_or_get_credentials returns and the credentials are kept; or
\* build and _get_service return, the new handle is saved to the cache and
\* gen_message stores it
FetchCreate(i) ==
    /\ pc = "gather"
    /\ i \in inflight
    /\ phase[i] \in {"acquire", "build"}
    /\ LET f == FetcherFor(i)
           handle == Len(hist.builders) + 1
       IN  IF phase[i] = "acquire"
           THEN /\ credentials' = Creds
                /\ phase' = [phase EXCEPT ![i] = "build"]
                /\ UNCHANGED <<cache, svc, hist>>
           ELSE /\ cache' = [cache EXCEPT ![f] = handle]
                /\ svc' = [svc EXCEPT ![f] = handle]
                /\ phase' = [phase EXCEPT ![i] = "get"]
                /\ hist' = [hist EXCEPT !.builders = Append(@, f)]
                /\ UNCHANGED credentials
    /\ UNCHANGED <<remote, pool_size, disk, pc, state, page, remaining, current_batch,
                   inflight, responses, ret, error, printed, busy>>

\* MessageFetcher.get_message of slot i returns the message: the executor
\* has called self._messages_svc.get(...).execute()
FetchComplete(i) ==
    /\ pc = "gather"
    /\ i \in inflight
    /\ phase[i] = "get"
    /\ inflight' = inflight \ {i}
    /\ busy' = [busy EXCEPT ![FetcherFor(i)] = @ - 1]
    /\ phase' = [phase EXCEPT ![i] = "idle"]
    /\ responses' = [k \in DOMAIN responses \cup {i} |->
                        IF k = i THEN GetMessage(remote, current_batch[i].id)
                        ELSE responses[k]]
    /\ hist' = [hist EXCEPT !.used = @ \cup {<<FetcherFor(i), svc[FetcherFor(i)]>>}]
    /\ UNCHANGED <<remote, pool_size, disk, pc, state, page, remaining, current_batch,
                   ret, error, printed, credentials, cache, svc>>

\* MessageFetcher.gen_message of slot i raises: gather re-raises, nothing up
\* to cli catches it (cli catches KeyboardInterrupt only), the process ends.
FetchFail(i) ==
    /\ pc = "gather"
    /\ i \in inflight
    /\ pc' = "exited" /\ error' = "fetch"
    /\ UNCHANGED <<remote, pool_size, disk, state, ret, printed, credentials, hist>>
    /\ UNCHANGED Locals

\* gather has returned: fold the chunk's responses, in slot order; a label id
\* that is not in the dict raises KeyError, which nothing up to cli catches
FoldChunk ==
    /\ pc = "gather"
    /\ inflight = {}
    /\ LET resps == [k \in 1..Len(current_batch) |-> responses[k]]
       IN  /\ state' = [state EXCEPT !.labels = FoldResponses(@, resps)]
           /\ IF FoldRaises(state.labels, resps)
              THEN pc' = "exited" /\ error' = "keyerror"
              ELSE pc' = "sched" /\ UNCHANGED error
    /\ UNCHANGED <<remote, pool_size, disk, ret, printed, credentials, hist>>
    /\ UNCHANGED Locals

\* gen_stat after gen_stat_for_messages returns, up to the open() of save()
FinishPage ==
    /\ pc = "sched"
    /\ remaining = <<>>
    /\ state' = AdvanceState(state, page)
    /\ pc' = "save_open" /\ ret' = "gen_stat"
    /\ UNCHANGED <<remote, pool_size, disk, error, printed, credentials, hist>>
    /\ UNCHANGED Locals

\* main: calculator.state.print_stat() after gen_stat, then the process ends
PrintStat ==
    /\ pc = "print"
    /\ printed' = Printed(state)
    /\ pc' = "exited"
    /\ UNCHANGED <<remote, pool_size, disk, state, ret, error, credentials, hist>>
    /\ UNCHANGED Locals

\* cli: except KeyboardInterrupt: calculator.state.print_stat(). The
\* interrupt is raised wherever the run is, between open() and pickle.dump
\* of save() included.
Interrupt ==
    /\ pc \notin {"off", "exited"}
    /\ printed' = Printed(state)
    /\ pc' = "exited" /\ error' = "interrupt"
    /\ UNCHANGED <<remote, pool_size, disk, state, ret, credentials, hist>>
    /\ UNCHANGED Locals

\* The process is killed: its memory is gone, the file stays as it is.
Crash ==
    /\ pc \notin {"off", "exited"}
    /\ pc' = "off"
    /\ state' = NoState
    /\ page' = NoPage /\ remaining' = <<>> /\ current_batch' = <<>>
    /\ inflight' = {} /\ responses' = <<>> /\ ret' = "none"
    /\ busy' = Idle(pool_size)
    /\ credentials' = None /\ cache' = NoHandles(pool_size)
    /\ svc' = NoHandles(pool_size) /\ phase' = NoCalls(pool_size)
    /\ error' = "killed"
    /\ UNCHANGED <<remote, pool_size, disk, printed, hist>>

Next ==
    \/ \E p \in 1..MaxPerPage : Start(p)
    \/ Main
    \/ GenLabels
    \/ GenLabelsFail
    \/ MainResume
    \/ SaveOpen
    \/ SaveDump
    \/ SaveFail
    \/ RequestPage
    \/ RequestPageFail
    \/ DispatchChunk
    \/ \E i \in 1..MaxPoolSize : FetchService(i)
    \/ \E i \in 1..MaxPoolSize : FetchCreate(i)
    \/ \E i \in 1..MaxPoolSize : FetchComplete(i)
    \/ \E i \in 1..MaxPoolSize : FetchFail(i)
    \/ FoldChunk
    \/ FinishPage
    \/ PrintStat
    \/ Interrupt
    \/ Crash

Spec == Init /\ [][Next]_vars


\* ------------------------------------------------------------------ claims
\* The totals of a mailbox of n items, from the items themselves.
ItemsWith(l, n) ==
    {i \in 1..n : \E k \in DOMAIN ItemLabelIds(i) : ItemLabelIds(i)[k] = l}

RECURSIVE SumSizes(_)
SumSizes(S) ==
    IF S = {} THEN 0
    ELSE LET i == CHOOSE x \in S : TRUE IN ItemSize(i) + SumSizes(S \ {i})

ExactLabels(n) ==
    [l \in LabelIds |-> [type |-> LabelType(l), size |-> SumSizes(ItemsWith(l, n)),
                         count |-> Cardinality(ItemsWith(l, n))]]

NumPages(n, p) == (n + p - 1) \div p

\* C1: in a fresh run against a plain mailbox of one or more non-empty pages,
\* once the driver has set done every label's count is the number of items
\* carrying the label and its size the sum of their size estimates.
C1_FreshRunTotalsExact ==
    (hist.fresh /\ remote.kind = "plain" /\ remote.n >= 1 /\ state.done)
        => state.labels = ExactLabels(remote.n)

\* C2: against a plain finite mailbox a run leaves the fetch loop after
\* finitely many page requests.  What the loop does in a pass is decided by
\* state.next_page_token and the mailbox alone, so a run that asks for the
\* same page token twice repeats itself for ever: a run that ends has asked
\* for every page token at most once.
C2_LeavesLoop ==
    remote.kind = "plain"
        => \A i, j \in 1..Len(hist.cursors) :
               i # j => hist.cursors[i] # hist.cursors[j]

\* The state an uninterrupted run of gen_labels and gen_stat ends in: the
\* loop of gen_stat run to its break or to the KeyError of a fold, at most
\* fuel pages long.
RECURSIVE Drive(_, _, _)
Drive(rem, st, fuel) ==
    LET resp == ListMessages(rem, st.message_per_page, st.next_page_token)
        msgs == [k \in 1..Len(resp.messages) |-> GetMessage(rem, resp.messages[k].id)]
    IN  IF StallCheck(resp, st) \/ EmptyCheck(resp) THEN [st EXCEPT !.done = TRUE]
        ELSE IF fuel = 0 THEN st
        ELSE IF FoldRaises(st.labels, msgs)
        THEN [st EXCEPT !.labels = FoldResponses(@, msgs)]
        ELSE Drive(rem,
                   AdvanceState([st EXCEPT !.labels = FoldResponses(@, msgs)], resp),
                   fuel - 1)

Uninterrupted(rem, p) ==
    Drive(rem, [NewState(p) EXCEPT !.labels = NewLabels], MaxProcessed)

\* C3: whatever kills and restarts came before, a run that reaches Done holds
\* the per-label counts and sizes (and the processed count) of one
\* uninterrupted run over the same mailbox.
C3_ResumeEqualsUninterrupted ==
    state.done =>
        /\ Uninterrupted(remote, state.message_per_page).done
        /\ state.labels = Uninterrupted(remote, state.message_per_page).labels
        /\ state.messages_processed =
               Uninterrupted(remote, state.message_per_page).messages_processed

\* C3 witness: a run resumed from the snapshot of a page has fetched the
\* rest and ended at Done.
C3_Witness ==
    /\ pc = "exited" /\ error = "none" /\ state.done
    /\ ~hist.fresh /\ hist.loaded >= 1 /\ hist.fetched # {}

\* C4: a run resumed from the snapshot written after page k (k pages of p
\* items processed, token k) fetches no item of pages 1..k, and at Done its
\* processed count is the number of items of the mailbox.
C4_NoRefetchAfterResume ==
    (/\ remote.kind = "plain" /\ ~hist.fresh /\ hist.token >= 1
     /\ hist.loaded = hist.token * state.message_per_page)
        => /\ \A i \in hist.fetched : i > hist.loaded
           /\ state.done => state.messages_processed = remote.n

\* C5: the failure of one item's fetch does not end the run: the error does
\* not unwind past the scheduler.
C5_FetchFailureIsolated == ~(pc = "exited" /\ error = "fetch")


\* ------------------------------------------------- the scheduler on its own
\* gen_stat_for_messages entered with a page of n items, n up to MaxBatch,
\* as gen_stat calls it in a fresh run after the first page request.
SchedInit ==
    /\ pool_size \in 1..MaxPoolSize
    /\ remote \in [n : 1..MaxBatch, kind : {"emptytail"}, orphan : {0}]
    /\ state = [NewState(MaxBatch) EXCEPT !.labels = NewLabels]
    /\ disk = [tag |-> "ok", st |-> state]
    /\ pc = "sched"
    /\ page = ListMessages(remote, MaxBatch, None)
    /\ remaining = page.messages
    /\ current_batch = <<>>
    /\ inflight = {}
    /\ responses = <<>>
    /\ ret = "none"
    /\ error = "none"
    /\ printed = NotPrinted
    /\ busy = Idle(pool_size)
    /\ credentials = Creds
    /\ cache = NoHandles(pool_size)
    /\ svc = NoHandles(pool_size)
    /\ phase = NoCalls(pool_size)
    /\ hist = [NewHist(TRUE, 0, None) EXCEPT !.cursors = <<None>>, !.calls = 2,
                                           !.label_calls = 1, !.acquired = 1]

SchedNext ==
    \/ DispatchChunk
    \/ \E i \in 1..MaxPoolSize : FetchService(i)
    \/ \E i \in 1..MaxPoolSize : FetchCreate(i)
    \/ \E i \in 1..MaxPoolSize : FetchComplete(i)
    \/ \E i \in 1..MaxPoolSize : FetchFail(i)
    \/ FoldChunk

SchedSpec == SchedInit /\ [][SchedNext]_vars

RECURSIVE SumSeq(_)
SumSeq(q) == IF q = <<>> THEN 0 ELSE Head(q) + SumSeq(Tail(q))

\* The size of the j-th chunk of a batch of n ids and a pool of size: size,
\* but for the last chunk, which is n mod size when that is not 0.
ExpectedChunk(n, size, j) == IF j * size <= n THEN size ELSE n % size

\* C6: a batch of n ids goes out in ceil(n/N) consecutive chunks of sizes
\* N, ..., N, (n mod N or N); a chunk is dispatched only when no fetch is in
\* flight, and never more than N fetches are in flight.
C6_BoundedChunks ==
    LET n == Len(page.messages)
        sent == SumSeq(hist.chunks)
    IN  /\ Cardinality(inflight) <= pool_size
        /\ inflight \subseteq 1..Len(current_batch)
        /\ pc = "sched" => inflight = {}
        /\ Len(hist.chunks) <= NumPages(n, pool_size)
        /\ \A j \in 1..Len(hist.chunks) :
               hist.chunks[j] = ExpectedChunk(n, pool_size, j) /\ hist.chunks[j] >= 1
        /\ hist.fetched = {page.messages[k].id : k \in 1..sent}
        /\ remaining = SubSeq(page.messages, sent + 1, n)
        /\ (pc = "sched" /\ remaining = <<>>) => Len(hist.chunks) = NumPages(n, pool_size)

\* C6 witness: pool size 3, a batch of 7: the chunks were 3, 3 and 1.
C6_Witness ==
    /\ pool_size = 3 /\ Len(page.messages) = 7
    /\ pc = "sched" /\ remaining = <<>> /\ hist.chunks = <<3, 3, 1>>

\* messages_processed of the snapshot a new run would load; 0 without one.
DiskProcessed == IF disk.tag = "ok" THEN disk.st.messages_processed ELSE 0

\* C7: the snapshot on disk is at most one page behind the pages folded in
\* memory: a kill at any point loses at most one page of progress.
C7_LagAtMostOnePage ==
    state.messages_processed - DiskProcessed <= state.message_per_page

\* C8: save is atomic: the file never holds an empty or partly written
\* snapshot, which a kill would leave behind and the next load cannot restore.
C8_SaveAtomic == disk.tag # "torn"

DiskDone == disk.tag = "ok" /\ disk.st.done

\* C9: once a snapshot with done = True is on disk, no step rewrites the
\* file, makes a remote call or changes a field of the state: every process
\* that runs holds the state of the snapshot.
C9_CompletionTerminal ==
    [][DiskDone =>
          /\ disk' = disk
          /\ hist'.calls <= hist.calls
          /\ pc' # "off" => state' = disk.st]_vars

\* C9 witness: a later run on a done snapshot has loaded it and returned
\* without a page request.
C9_Witness ==
    /\ DiskDone /\ ~hist.fresh /\ hist.loaded >= 1
    /\ pc = "exited" /\ error = "none" /\ hist.calls = 0 /\ state = disk.st

\* C10: a run that left the loop because the service repeated the page token
\* is not marked done.
C10_StallNotMarkedDone ==
    (remote.kind = "stall" /\ hist.exit = "stall" /\ state.next_page_token # None)
        => ~state.done

\* C11: after an external interrupt the statistics held in memory have been
\* printed and the file is what the last completed save left: the next run
\* can load it, and it holds no page beyond those folded in memory.
C11_InterruptKeepsLastSave ==
    (pc = "exited" /\ error = "interrupt")
        => /\ printed = Printed(state)
           /\ disk.tag # "torn"
           /\ DiskProcessed <= state.messages_processed

\* C12: a run ended by a failure of the label listing, of the page listing or
\* of a save has printed the statistics it held.
C12_ErrorsPrintStat ==
    (pc = "exited" /\ error \in {"labels", "list", "save"})
        => printed = Printed(state)

\* ---------------------------------------------------- print_stat on its own
\* print_stat at the end of main, over every label dict of three labels
\* with sizes up to MaxSize and counts up to MaxCount.
PrintLabels ==
    {m \in [{"L1", "L2", "L3"} ->
               [type : {"user", "system"}, size : 0..MaxSize, count : 0..MaxCount]] :
        \A l \in DOMAIN m : m[l].count = 0 => m[l].size = 0}

PrintInit ==
    /\ remote = [n |-> 0, kind |-> "plain", orphan |-> 0]
    /\ pool_size = 1
    /\ \E m \in PrintLabels :
          state = [NewState(1) EXCEPT !.labels = m, !.done = TRUE]
    /\ disk = [tag |-> "ok", st |-> state]
    /\ pc = "print"
    /\ page = NoPage
    /\ remaining = <<>>
    /\ current_batch = <<>>
    /\ inflight = {}
    /\ responses = <<>>
    /\ ret = "none"
    /\ error = "none"
    /\ printed = NotPrinted
    /\ busy = Idle(pool_size)
    /\ credentials = Creds
    /\ cache = NoHandles(pool_size)
    /\ svc = NoHandles(pool_size)
    /\ phase = NoCalls(pool_size)
    /\ hist = [NewHist(TRUE, 0, None) EXCEPT !.cursors = <<None>>, !.calls = 2,
                                           !.label_calls = 1, !.acquired = 1,
                                           !.exit = "stall"]

PrintNext == PrintStat

PrintSpec == PrintInit /\ [][PrintNext]_vars

\* C13: the lines of the summary are exactly the labels with count > 0 and a
\* type other than system, each once, in ascending order of size.
C13_SummaryFilteredSorted ==
    printed.stat =>
        LET lines == printed.lines
        IN  /\ \A k \in 1..Len(lines) : lines[k] \in DOMAIN state.labels
            /\ \A l \in DOMAIN state.labels :
                   (state.labels[l].count > 0 /\ state.labels[l].type # "system")
                       <=> \E k \in 1..Len(lines) : lines[k] = l
            /\ \A j, k \in 1..Len(lines) : j # k => lines[j] # lines[k]
            /\ \A j, k \in 1..Len(lines) :
                   j < k => state.labels[lines[j]].size <= state.labels[lines[k]].size

\* C13 witness: the summary has put the smaller L2 before L1 and has left
\* out L3, a system label with messages.
C13_Witness ==
    /\ pc = "exited" /\ printed.lines = <<"L2", "L1">>
    /\ state.labels["L2"].size < state.labels["L1"].size
    /\ state.labels["L3"].count > 0 /\ state.labels["L3"].type = "system"

\* C14: a fresh run against a plain mailbox that fits in one page (the first
\* response carries no next page token) has fetched and counted every item
\* of the page when done is set.
C14_OnePageCounted ==
    (/\ hist.fresh /\ remote.kind = "plain" /\ remote.orphan = 0 /\ state.done
     /\ 1 <= remote.n /\ remote.n <= state.message_per_page)
        => /\ hist.fetched = 1..remote.n
           /\ state.messages_processed = remote.n

\* A state with no page token, messages processed and done not set.
NoneMidRun(st) ==
    st.next_page_token = None /\ st.messages_processed > 0 /\ ~st.done

\* C15: neither the state in memory nor a snapshot on disk has page token
\* None with messages processed and done not set, so that no page is asked
\* for with token None after a page has been processed.
C15_NoneOnlyAtStartOrDone ==
    /\ ~NoneMidRun(state)
    /\ disk.tag = "ok" => ~NoneMidRun(disk.st)

\* The items of the page the service returns for token tok.
PageIds(rem, p, tok) ==
    LET msgs == ListMessages(rem, p, tok).messages
    IN  {msgs[k].id : k \in 1..Len(msgs)}

\* The totals of no page: the dict of gen_labels, no item, no page token.
ChainStart == [labels |-> NewLabels, processed |-> 0, token |-> None]

\* The totals c of some pages, with the page the service returns for c.token
\* added from its items: per label the number and the sizes of the items
\* carrying it, the number of items, and the next page token.
ChainStep(rem, p, c) ==
    LET ids == PageIds(rem, p, c.token)
    IN  [labels |->
             [l \in LabelIds |->
                 [type |-> LabelType(l),
                  size |-> c.labels[l].size + SumSizes(ids \cap ItemsWith(l, rem.n)),
                  count |-> c.labels[l].count
                               + Cardinality(ids \cap ItemsWith(l, rem.n))]],
         processed |-> c.processed + Cardinality(ids),
         token |-> ListMessages(rem, p, c.token).nextPageToken]

\* st holds the label totals and the number of items of exactly the pages
\* of c, or of those and some whole pages after them (at most fuel).
RECURSIVE OnChain(_, _, _, _)
OnChain(rem, c, st, fuel) ==
    \/ st.labels = c.labels /\ st.messages_processed = c.processed
    \/ /\ fuel > 0 /\ c.processed < st.messages_processed
       /\ OnChain(rem, ChainStep(rem, st.message_per_page, c), st, fuel - 1)

\* C16: every snapshot on disk holds, for some k, the label totals of exactly
\* the first k pages and a messages_processed that is the number of items of
\* those k pages: never a part of a page, never a page that is not counted.
C16_CheckpointWholePages ==
    disk.tag = "ok" => OnChain(remote, ChainStart, disk.st, MaxProcessed)

\* C16 witness: the snapshot holds whole pages, three or more items, while
\* the memory has folded a part of the next page.
C16_Witness ==
    /\ disk.tag = "ok" /\ disk.st.messages_processed >= 3
    /\ pc = "sched" /\ remaining # <<>> /\ state.labels # disk.st.labels

\* The response to the page request of this pass stalls or is empty,
\* from the response itself.
StallOrEmpty ==
    /\ pc = "gen_stat"
    /\ LET resp == ListMessages(remote, state.message_per_page, state.next_page_token)
       IN  resp.nextPageToken = state.next_page_token \/ resp.messages = <<>>

\* C17: a page response that repeats the page token of the state or has no
\* messages takes the run to the final save with done set and nothing else
\* changed; from then on the run fetches nothing, asks for no page and
\* changes no field, and it prints only with the final snapshot on disk.
C17_StallGoesToDone ==
    [][/\ (StallOrEmpty /\ pc' \notin {"exited", "off"})
           => /\ state' = [state EXCEPT !.done = TRUE]
              /\ pc' = "save_open" /\ ret' = "print"
              /\ hist'.fetched = hist.fetched
       /\ (hist.exit # "none" /\ hist'.exit # "none")
           => /\ hist'.calls = hist.calls /\ hist'.fetched = hist.fetched
              /\ hist'.cursors = hist.cursors
              /\ pc' # "off" => state' = state
       /\ pc' = "print" => (state'.done /\ disk' = [tag |-> "ok", st |-> state'])]_vars

\* C17 witness: after two or more messages the service returned an empty
\* page; the run has saved the done state, printed and ended.
C17_Witness ==
    /\ pc = "exited" /\ error = "none" /\ hist.exit = "empty" /\ printed.stat
    /\ state.done /\ state.messages_processed >= 2
    /\ disk = [tag |-> "ok", st |-> state]

\* C18: a run lists the labels at most once, and only when the state it
\* started from had none; the first page request finds the zero-count dict
\* of the listing on disk.
C18_LabelsOncePerRun ==
    /\ hist.label_calls <= 1
    /\ hist.label_calls = 1 => ~hist.had_labels
    /\ (hist.label_calls = 1 /\ pc = "gen_stat" /\ hist.cursors = <<>>)
           => (disk = [tag |-> "ok", st |-> state] /\ state.labels = NewLabels)
    /\ hist.cursors # <<>> => disk.tag # "none"

\* C18 witness: a run resumed from a snapshot with labels has asked for
\* pages without listing the labels.
C18_Witness ==
    /\ ~hist.fresh /\ hist.had_labels /\ hist.label_calls = 0
    /\ Len(hist.cursors) >= 1 /\ hist.fetched # {}

\* C19: the fold of a message with a label id that is not in the dict ends
\* the run with a KeyError: no run gets past the fold of such a message,
\* the dict gets no new key, and the snapshot on disk is the one of the last
\* finished page, with the processed count and page token the memory has.
C19_UnknownLabelFails ==
    /\ (remote.orphan # 0 /\ remote.orphan \in hist.fetched)
           => pc \in {"gather", "exited", "off"}
    /\ (pc = "exited" /\ error = "keyerror")
           => /\ DOMAIN state.labels = LabelIds
              /\ disk.tag = "ok" /\ ~disk.st.done
              /\ disk.st.messages_processed = state.messages_processed
              /\ disk.st.next_page_token = state.next_page_token
              /\ \A l \in LabelIds : disk.st.labels[l].count <= state.labels[l].count

\* C19 witness: the KeyError came after a finished page, with messages of
\* the failed page folded in memory and not on disk.
C19_Witness ==
    /\ pc = "exited" /\ error = "keyerror"
    /\ disk.tag = "ok" /\ disk.st.messages_processed >= 1
    /\ state.labels # disk.st.labels

\* C20: no fetcher has two calls in flight: between chunks every fetcher is
\* idle, and while a chunk is gathered the fetcher of slot i has the one
\* call of position i, if that is still in flight, and no other.
C20_OneCallPerFetcher ==
    /\ \A f \in DOMAIN busy : busy[f] <= 1
    /\ pc = "sched" => busy = Idle(pool_size)
    /\ pc = "gather" =>
           \A f \in DOMAIN busy : busy[f] = IF f \in inflight THEN 1 ELSE 0

\* C20 witness: the fetchers of slots 1 and 2 are in use again for the
\* second chunk of a page.
C20_Witness ==
    /\ pc = "gather" /\ Len(hist.chunks) >= 2
    /\ {1, 2} \subseteq inflight /\ busy[1] = 1 /\ busy[2] = 1

\* C21: a run calls _create_or_get_credentials at most once, whichever of
\* the label service, the page-listing service and the fetchers' services it
\* builds, and however the fetchers of a chunk interleave.
C21_CredentialsOnce ==
    /\ hist.acquired <= 1
    /\ \A i \in DOMAIN phase : phase[i] # "acquire"

\* C21 witness: the label service and the page-listing service have been
\* built, and two fetchers of the first chunk are building their services
\* at the same time, after one acquisition.
C21_Witness ==
    /\ pc = "gather" /\ hist.label_calls = 1 /\ hist.builders = <<>>
    /\ pool_size >= 2
    /\ phase[1] = "build" /\ phase[2] = "build" /\ hist.acquired = 1

\* The handles fetcher f has built in this run.
BuiltBy(f) == {k \in 1..Len(hist.builders) : hist.builders[k] = f}

\* C24: a fetcher builds at most one handle in a run, every get of the
\* fetcher uses that handle, which the cache and the fetcher hold from the
\* first fetch on as long as the process lives, and no handle belongs to
\* two fetchers.
C24_HandleBuiltOnce ==
    /\ \A f \in DOMAIN cache : Cardinality(BuiltBy(f)) <= 1
    /\ pc # "off" =>
           \A f \in DOMAIN cache :
               /\ cache[f] # None => (BuiltBy(f) = {cache[f]} /\ svc[f] = cache[f])
               /\ cache[f] = None => (BuiltBy(f) = {} /\ svc[f] = None)
    /\ \A u \in hist.used : BuiltBy(u[1]) = {u[2]}
    /\ \A f, g \in DOMAIN cache : (f # g /\ cache[f] # None) => cache[f] # cache[g]

\* C24 witness: fetcher 1 has fetched with the handle it built and is about
\* to fetch again, with that handle taken from the cache; fetcher 2 has
\* another handle.
C24_Witness ==
    /\ pc = "gather" /\ pool_size >= 2 /\ phase[1] = "get"
    /\ <<1, cache[1]>> \in hist.used /\ svc[1] = cache[1]
    /\ Len(hist.builders) = 2 /\ cache[2] # None /\ cache[2] # cache[1]

\* --------------------------------------------------------- the fold on its own
\* The labelIds a message of the chunk can have: none, or labels of the dict
\* in either order.
FoldLabelLists == {<<>>, <<"L1">>, <<"L2">>, <<"L1", "L2">>, <<"L2", "L1">>}

\* The dicts the fold starts from: the one of gen_labels, and one with totals.
FoldStartLabels ==
    {NewLabels,
     [l \in LabelIds |-> [type |-> LabelType(l), size |-> MaxSize, count |-> MaxCount]]}

\* gen_stat_for_messages when gather has returned the responses of a chunk of
\* up to MaxFold messages, each of a size in 1..MaxSize and with labelIds of
\* FoldLabelLists, in the order of the chunk.
FoldInit ==
    /\ remote = [n |-> 0, kind |-> "plain", orphan |-> 0]
    /\ pool_size = MaxFold
    /\ \E m \in FoldStartLabels : state = [NewState(MaxFold) EXCEPT !.labels = m]
    /\ disk = [tag |-> "ok", st |-> state]
    /\ pc = "gather"
    /\ \E n \in 0..MaxFold :
          \E sizes \in [1..n -> 1..MaxSize], lists \in [1..n -> FoldLabelLists] :
              /\ responses = [k \in 1..n |->
                                 [id |-> k, sizeEstimate |-> sizes[k],
                                  labelIds |-> lists[k]]]
              /\ current_batch = [k \in 1..n |-> [id |-> k]]
    /\ page = [messages |-> current_batch, nextPageToken |-> None]
    /\ remaining = <<>>
    /\ inflight = {}
    /\ ret = "none"
    /\ error = "none"
    /\ printed = NotPrinted
    /\ busy = Idle(pool_size)
    /\ credentials = Creds
    /\ cache = NoHandles(pool_size)
    /\ svc = NoHandles(pool_size)
    /\ phase = NoCalls(pool_size)
    /\ hist = [NewHist(TRUE, 0, None) EXCEPT !.cursors = <<None>>, !.label_calls = 1,
                                           !.acquired = 1]

FoldNext == FoldChunk

FoldSpec == FoldInit /\ [][FoldNext]_vars

\* The responses in the order perm gives them.
Permuted(resps, perm) == [k \in DOMAIN resps |-> resps[perm[k]]]

\* C22: the dict after the fold of a chunk is the dict the fold gives for
\* every permutation of the chunk's responses.
C22_FoldCommutative ==
    pc = "sched" =>
        \A perm \in Permutations(DOMAIN responses) :
            FoldResponses(disk.st.labels, Permuted(responses, perm)) = state.labels

\* C22 witness: three messages of different sizes, not all with the same
\* labels, have been folded into a dict that had totals.
C22_Witness ==
    /\ pc = "sched" /\ Len(responses) = 3 /\ disk.st.labels # NewLabels
    /\ responses[1].sizeEstimate # responses[2].sizeEstimate
    /\ responses[1].labelIds = <<"L1", "L2">> /\ responses[2].labelIds = <<"L2", "L1">>
    /\ responses[3].labelIds = <<"L1">>
    /\ state.labels # disk.st.labels

\* C23: a run that found a snapshot starts main with the state of the
\* snapshot as it is, keeps the page size of the snapshot, and asks for every
\* page with that size, whatever --messages-per-page was given.
C23_StoredPageSizeUsed ==
    (~hist.fresh /\ error # "load") =>
        /\ pc = "main" => state = disk.st
        /\ pc # "off" => state.message_per_page = hist.stored
        /\ hist.sizes \subseteq {hist.stored}

\* C23 witness: a run resumed with a --messages-per-page other than the one
\* of the snapshot has asked for a page and fetched messages of it.
C23_Witness ==
    /\ ~hist.fresh /\ error = "none" /\ hist.cli # hist.stored
    /\ hist.sizes = {hist.stored} /\ hist.fetched # {}

====
